---- MODULE Spec2Model ----
(***************************************************************************)
(* Sector money-flow dashboard (PolygonMoneyFlowAnalysis.py).              *)
(*                                                                         *)
(* Two specifications share this module.                                   *)
(*   Spec    the process: module start-up (lines 156-159) followed by      *)
(*           update_charts callbacks served by concurrent worker threads,  *)
(*           over the module globals gics_sectors, gics_data, money_flows. *)
(*   SpecFn  the two pure computations, compute_money_flows and the body   *)
(*           of the collect_sector_data loop, applied to bounded inputs.   *)
(*                                                                         *)
(* Numbers are exact rationals <<numerator, denominator>> (the Python      *)
(* floats without rounding); None is the empty tuple.  A Python dict that  *)
(* the code iterates is a sequence of <<key, value>> pairs in insertion    *)
(* order; a ticker record (never iterated) is a function on its keys.      *)
(***************************************************************************)
EXTENDS Integers, Sequences, FiniteSets, TLC

(* ------------------------------ numbers -------------------------------- *)

None == << >>

Abs(a) == IF a < 0 THEN -a ELSE a

RECURSIVE GCD(_, _)
GCD(a, b) == IF b = 0 THEN a ELSE GCD(b, a % b)

\* the rational n/d in lowest terms with a positive denominator
Rat(n, d) ==
    LET g == GCD(Abs(n), Abs(d))
        s == IF d < 0 THEN -1 ELSE 1
    IN  << (s * n) \div g, (s * d) \div g >>

Num(k) == << k, 1 >>

RAdd(x, y) == Rat(x[1] * y[2] + y[1] * x[2], x[2] * y[2])
RSub(x, y) == Rat(x[1] * y[2] - y[1] * x[2], x[2] * y[2])
\* reduce crosswise before multiplying, so that products stay small
RMul(x, y) ==
    LET a == Rat(x[1], y[2])
        b == Rat(y[1], x[2])
    IN  Rat(a[1] * b[1], a[2] * b[2])
RDiv(x, y) == RMul(x, Rat(y[2], y[1]))
RLess(x, y) == x[1] * y[2] < y[1] * x[2]

\* Python truthiness of a float-or-None value: None and 0 are false
Truthy(x) == x # None /\ x[1] # 0

RECURSIVE sum(_)
sum(xs) == IF xs = << >> THEN Num(0) ELSE RAdd(xs[1], sum(Tail(xs)))

(* ------------------------------- dicts --------------------------------- *)

DictKeySet(d) == {d[i][1] : i \in 1..Len(d)}
DictValues(d) == [i \in 1..Len(d) |-> d[i][2]]
DictGet(d, k) == d[CHOOSE i \in 1..Len(d) : d[i][1] = k][2]
\* d[k] = v: an existing key keeps its position, a new key is appended
DictSet(d, k, v) ==
    IF k \in DictKeySet(d)
    THEN [i \in 1..Len(d) |-> IF d[i][1] = k THEN << k, v >> ELSE d[i]]
    ELSE Append(d, << k, v >>)

\* rec.get(k): None for a key the record does not have
RecGet(rec, k) == IF k \in DOMAIN rec THEN rec[k] ELSE None

(* ----------------------------- constants ------------------------------- *)

Labels == << "1d", "1w", "1m" >>
LabelSet == {"1d", "1w", "1m"}

PriceKey(label) ==
    CASE label = "1d" -> "price_1d"
      [] label = "1w" -> "price_1w"
      [] label = "1m" -> "price_1m"

CapKey(label) ==
    CASE label = "1d" -> "market_cap_1d"
      [] label = "1w" -> "market_cap_1w"
      [] label = "1m" -> "market_cap_1m"

\* the six keys of gics_sectors, in the order of the literal
SectorOrder ==
    << "Information Technology", "Consumer Discretionary", "Consumer Staples",
       "Energy", "Utilities", "Materials" >>
TrackedSectors == {SectorOrder[i] : i \in 1..Len(SectorOrder)}

\* gics_sectors as the literal leaves it: every tracked sector, no ticker
EmptySectors == [i \in 1..Len(SectorOrder) |-> << SectorOrder[i], << >> >>]

\* days are counted from the day the module is loaded: today, line 25
StartDay == 0

\* timedelta(days=1), timedelta(weeks=1) and timedelta(weeks=4), in days
timedelta == ("1d" :> 1) @@ ("1w" :> 7) @@ ("1m" :> 28)

\* lines 26-30: the three dates, worked out once when the module is loaded
date_offsets == [label \in LabelSet |-> StartDay - timedelta[label]]

(* ------------------------- compute_money_flows ------------------------- *)

\* PctChanges with the change taken relative to today's cap
RECURSIVE PctChangesOverToday(_, _)
PctChangesOverToday(recs, label) ==
    IF recs = << >> THEN << >>
    ELSE LET d == recs[1]
             rest == PctChangesOverToday(Tail(recs), label)
         IN  IF "market_cap_today" \notin DOMAIN d THEN rest
             ELSE LET today == d["market_cap_today"]
                      past == RecGet(d, CapKey(label))
                  IN  IF Truthy(today) /\ Truthy(past)
                      THEN << RMul(RDiv(RSub(today, past), today), Num(100)) >>
                           \o rest
                      ELSE rest

\* the pct_changes list of one sector and window: one entry per record with
\* a truthy market_cap_today and a truthy market_cap_<label>; a record
\* without the key market_cap_today raises KeyError inside the try
RECURSIVE PctChanges(_, _)
PctChanges(recs, label) ==
    IF recs = << >> THEN << >>
    ELSE LET d == recs[1]
             rest == PctChanges(Tail(recs), label)
         IN  IF "market_cap_today" \notin DOMAIN d THEN rest
             ELSE LET today == d["market_cap_today"]
                      past == RecGet(d, CapKey(label))
                  IN  IF Truthy(today) /\ Truthy(past)
                      THEN << RMul(RDiv(RSub(today, past), past), Num(100)) >>
                           \o rest
                      ELSE rest

\* AbsoluteChanges with a missing past cap taken as 0
RECURSIVE AbsoluteChangesPastZero(_, _)
AbsoluteChangesPastZero(recs, label) ==
    IF recs = << >> THEN << >>
    ELSE LET d == recs[1]
             rest == AbsoluteChangesPastZero(Tail(recs), label)
         IN  IF "market_cap_today" \notin DOMAIN d THEN rest
             ELSE LET today == d["market_cap_today"]
                      past == RecGet(d, CapKey(label))
                  IN  IF Truthy(today)
                      THEN << RSub(today, IF Truthy(past) THEN past
                                                           ELSE Num(0)) >>
                           \o rest
                      ELSE rest

RECURSIVE AbsoluteChanges(_, _)
AbsoluteChanges(recs, label) ==
    IF recs = << >> THEN << >>
    ELSE LET d == recs[1]
             rest == AbsoluteChanges(Tail(recs), label)
         IN  IF "market_cap_today" \notin DOMAIN d THEN rest
             ELSE LET today == d["market_cap_today"]
                      past == RecGet(d, CapKey(label))
                  IN  IF Truthy(today) /\ Truthy(past)
                      THEN << RSub(today, past) >> \o rest
                      ELSE rest

AvgPctChange(pct_changes) ==
    IF pct_changes # << >>
    THEN RDiv(sum(pct_changes), Num(Len(pct_changes)))
    ELSE Num(0)

TotalAbsChangeMillions(absolute_changes) ==
    RDiv(IF absolute_changes # << >> THEN sum(absolute_changes) ELSE Num(0),
         Num(1000000))

Row(sector, pct, abs) ==
    ("Sector" :> sector) @@ ("Change (%)" :> pct)
        @@ ("Absolute Change ($M)" :> abs)

\* SectorRow that gives up on the whole sector when one of its records
\* cannot be counted for the window
SectorRowAllOrNothing(sector, tickers, label) ==
    IF \E i \in 1..Len(tickers) :
          LET d == tickers[i][2]
          IN  \/ "market_cap_today" \notin DOMAIN d
              \/ ~Truthy(d["market_cap_today"])
              \/ ~Truthy(RecGet(d, CapKey(label)))
    THEN Row(sector, Num(0), Num(0))
    ELSE Row(sector,
             AvgPctChange(PctChanges(DictValues(tickers), label)),
             TotalAbsChangeMillions(AbsoluteChanges(DictValues(tickers),
                                                    label)))

\* one iteration of the outer loop: the row of one sector for one window
SectorRow(sector, tickers, label) ==
    Row(sector,
        AvgPctChange(PctChanges(DictValues(tickers), label)),
        TotalAbsChangeMillions(AbsoluteChanges(DictValues(tickers), label)))

EmptyFlowResult == [label \in LabelSet |-> << >>]

\* AppendSector with no row for a sector that holds no ticker
AppendSectorSkipEmpty(flow_result, sector, tickers) ==
    IF tickers = << >> THEN flow_result
    ELSE [label \in LabelSet |->
            Append(flow_result[label], SectorRow(sector, tickers, label))]

\* flow_result after the iteration for one sector
AppendSector(flow_result, sector, tickers) ==
    [label \in LabelSet |->
        Append(flow_result[label], SectorRow(sector, tickers, label))]

\* ComputeFrom that takes the sectors last to first
RECURSIVE ComputeFromReversed(_, _)
ComputeFromReversed(flow_result, items) ==
    IF items = << >> THEN flow_result
    ELSE AppendSector(ComputeFromReversed(flow_result, Tail(items)),
                      items[1][1], items[1][2])

RECURSIVE ComputeFrom(_, _)
ComputeFrom(flow_result, items) ==
    IF items = << >> THEN flow_result
    ELSE ComputeFrom(AppendSector(flow_result, items[1][1], items[1][2]),
                     Tail(items))

compute_money_flows(data) == ComputeFrom(EmptyFlowResult, data)

(* ----------------------- collect_sector_data loop ---------------------- *)

\* row['Symbol'].replace('.', '-') on a symbol spelled as a tuple of letters
Replace(symbol) ==
    [i \in 1..Len(symbol) |-> IF symbol[i] = "." THEN "-" ELSE symbol[i]]

\* TickerData with the price ratio upside down
TickerDataInverted(current_price, current_cap, hist) ==
    [k \in {"price_today", "market_cap_today"}
            \cup {PriceKey(l) : l \in LabelSet}
            \cup {CapKey(l) : l \in LabelSet} |->
        IF k = "price_today" THEN current_price
        ELSE IF k = "market_cap_today" THEN current_cap
        ELSE LET l == CHOOSE l \in LabelSet : k \in {PriceKey(l), CapKey(l)}
             IN  IF ~Truthy(hist[l]) THEN None
                 ELSE IF k = PriceKey(l) THEN hist[l]
                 ELSE RMul(RDiv(current_price, hist[l]), current_cap)]

\* the dict built at lines 103-115 from the three provider answers
TickerData(current_price, current_cap, hist) ==
    [k \in {"price_today", "market_cap_today"}
            \cup {PriceKey(l) : l \in LabelSet}
            \cup {CapKey(l) : l \in LabelSet} |->
        IF k = "price_today" THEN current_price
        ELSE IF k = "market_cap_today" THEN current_cap
        ELSE LET l == CHOOSE l \in LabelSet : k \in {PriceKey(l), CapKey(l)}
             IN  IF ~Truthy(hist[l]) THEN None
                 ELSE IF k = PriceKey(l) THEN hist[l]
                 ELSE RMul(RDiv(hist[l], current_price), current_cap)]

\* Raises with a missing historical price as an error of the loop body
RaisesOnMissingHist(current_price, current_cap, hist) ==
    \/ /\ ~Truthy(current_price) \/ current_cap = None
       /\ \E l \in LabelSet : Truthy(hist[l])
    \/ \E l \in LabelSet : ~Truthy(hist[l])

\* whether line 112 raises: a division by a current_price that is 0 or
\* None, or a product with a current_cap that is None
Raises(current_price, current_cap, hist) ==
    /\ ~Truthy(current_price) \/ current_cap = None
    /\ \E l \in LabelSet : Truthy(hist[l])

\* Stores without the test of current_cap
StoresPriceOnly(sectors, sector, current_price, current_cap) ==
    /\ sector \in DictKeySet(sectors)
    /\ Truthy(current_price)

\* whether the loop body reaches line 117 for this row
Stores(sectors, sector, current_price, current_cap) ==
    /\ sector \in DictKeySet(sectors)
    /\ Truthy(current_price)
    /\ Truthy(current_cap)

\* CollectRow without the test of the sector: a sector that is not a key
\* yet is given an empty dict first
CollectRowAnySector(sectors, symbol, sector, current_price, current_cap, hist) ==
    IF /\ Truthy(current_price)
       /\ Truthy(current_cap)
       /\ ~Raises(current_price, current_cap, hist)
    THEN DictSet(sectors, sector,
                 DictSet(IF sector \in DictKeySet(sectors)
                         THEN DictGet(sectors, sector) ELSE << >>,
                         Replace(symbol),
                         TickerData(current_price, current_cap, hist)))
    ELSE sectors

\* CollectRow that stores a ticker only when every window has a price
CollectRowAllWindows(sectors, symbol, sector, current_price, current_cap, hist) ==
    IF /\ Stores(sectors, sector, current_price, current_cap)
       /\ ~Raises(current_price, current_cap, hist)
       /\ \A l \in LabelSet : Truthy(hist[l])
    THEN DictSet(sectors, sector,
                 DictSet(DictGet(sectors, sector), Replace(symbol),
                         TickerData(current_price, current_cap, hist)))
    ELSE sectors

\* gics_sectors after one iteration of the loop at lines 90-118
CollectRow(sectors, symbol, sector, current_price, current_cap, hist) ==
    IF /\ Stores(sectors, sector, current_price, current_cap)
       /\ ~Raises(current_price, current_cap, hist)
    THEN DictSet(sectors, sector,
                 DictSet(DictGet(sectors, sector), Replace(symbol),
                         TickerData(current_price, current_cap, hist)))
    ELSE sectors

(* ------------------------------ rendering ------------------------------ *)

\* rows with one more row put after every row whose 'Change (%)' is not
\* larger: the stable ascending order sort_values gives a short column
RECURSIVE Insert(_, _)
Insert(sorted, row) ==
    IF sorted = << >> THEN << row >>
    ELSE LET last == sorted[Len(sorted)]
         IN  IF RLess(row["Change (%)"], last["Change (%)"])
             THEN Append(Insert(SubSeq(sorted, 1, Len(sorted) - 1), row), last)
             ELSE Append(sorted, row)

RECURSIVE sort_values(_)
sort_values(rows) ==
    IF rows = << >> THEN << >>
    ELSE Insert(sort_values(SubSeq(rows, 1, Len(rows) - 1)), rows[Len(rows)])

\* pd.DataFrame([]) has no column 'Change (%)': sort_values raises KeyError
RaisesKeyError(rows) == rows = << >>

\* the bar trace of one window: the sorted rows with the colour of each bar
Figure(rows) ==
    LET df == sort_values(rows)
    IN  [i \in 1..Len(df) |->
            df[i] @@ ("marker_color" :>
                IF RLess(Num(0), df[i]["Change (%)"]) THEN "green" ELSE "red")]

(* ------------------------- bounds and inputs --------------------------- *)

\* update_charts calls served in one behaviour
MaxCalls == 2
\* last value of the wall clock
MaxClock == 1
\* largest n_intervals a call carries
MaxIntervals == 1

Main == "main"
Workers == {"w1", "w2"}
Threads == Workers \cup {Main}

ConstituentRow(symbol, sector) ==
    ("Symbol" :> symbol) @@ ("GICS Sector" :> sector)

\* what fetch_snp500_data can return besides None: the constituent table on
\* two days, the second one without BF.B
ConstituentTables ==
    { << ConstituentRow(<< "X", "O", "M" >>, "Energy"),
         ConstituentRow(<< "J", "P", "M" >>, "Financials"),
         ConstituentRow(<< "B", "F", ".", "B" >>, "Consumer Staples") >>,
      << ConstituentRow(<< "X", "O", "M" >>, "Energy"),
         ConstituentRow(<< "J", "P", "M" >>, "Financials") >> }

\* answers of get_stock_price(ticker), get_market_cap(ticker) and
\* get_stock_price(ticker, date)
\* get_stock_price(ticker, date): the closes of 1d and 1w, none for 1m
CurrentPrices == {None, Num(100)}
MarketCaps == {Num(0), Num(1000000)}
HistPrices ==
    { [l \in LabelSet |-> IF l = "1m" THEN None ELSE Num(80)] }

NoTime == -1
\* no argument: the thread is in no call, or the call has read it
NoArg == -1

(* -------------------------------- state -------------------------------- *)

VARIABLES
    gics_sectors,   \* the module global of lines 33-45
    gics_data,      \* the module global: "unset", "empty" ({}) or
                    \* "gics_sectors" (a reference to that dict)
    money_flows,    \* the module global published to the callbacks
    generated_at,   \* clock value at which money_flows was assigned
    clock,          \* wall clock
    calls,          \* update_charts calls started so far
    pc,             \* position of each thread
    sp500_df,       \* collect_sector_data: the fetched table
    idx,            \* collect_sector_data: rows already iterated
    ret,            \* value collect_sector_data returns
    stored,         \* collect_sector_data: the <<sector, ticker>> keys this
                    \* call has assigned at line 117
    arg,            \* compute_money_flows: its argument
    flow_result,    \* compute_money_flows: the result under construction
    done,           \* compute_money_flows: sectors already iterated
    timestamp,      \* update_charts: timestamp
    figures,        \* update_charts: figures built so far
    seen,           \* per figure, the money_flows it was read from
    fn_in,          \* SpecFn: a gics_data argument
    fn_out,         \* SpecFn: compute_money_flows(fn_in), None before
    fn_call,        \* SpecFn: the last loop-body inputs, None before
    fn_runs,        \* SpecFn: calls of compute_money_flows so far
    n_given,        \* per call: n_intervals, until line 210 has read it
    data_list,      \* SpecIntraday: the rows collect_intraday_data has made
    intraday_i,     \* SpecIntraday: tickers the loop has been through
    step_in,        \* SpecIntraday: the answers of the last iteration
    met             \* SpecIntraday: the last call of calculate_metrics

globals == << gics_sectors, gics_data, money_flows, generated_at >>
collect_locals == << sp500_df, idx, ret, stored >>
compute_locals == << arg, flow_result, done >>
render_locals == << timestamp, figures, seen, n_given >>
intraday_vars == << data_list, intraday_i, step_in, met >>
fn_vars == << fn_in, fn_out, fn_call, fn_runs, intraday_vars >>
vars == << gics_sectors, gics_data, money_flows, generated_at, clock, calls,
           pc, sp500_df, idx, ret, stored, arg, flow_result, done, timestamp,
           figures, seen, fn_in, fn_out, fn_call, fn_runs, n_given,
           data_list, intraday_i, step_in, met >>

\* the dict a value of gics_data refers to
Deref(ref) == IF ref = "gics_sectors" THEN gics_sectors ELSE << >>

Init ==
    /\ gics_sectors = EmptySectors
    /\ gics_data = "unset"
    /\ money_flows = None
    /\ generated_at = NoTime
    /\ clock = 0
    /\ calls = 0
    /\ pc = [t \in Threads |-> IF t = Main THEN "fetch" ELSE "idle"]
    /\ sp500_df = [t \in Threads |-> None]
    /\ idx = [t \in Threads |-> 0]
    /\ ret = [t \in Threads |-> "unset"]
    /\ stored = [t \in Threads |-> {}]
    /\ arg = [t \in Threads |-> "unset"]
    /\ flow_result = [t \in Threads |-> None]
    /\ done = [t \in Threads |-> 0]
    /\ timestamp = [t \in Threads |-> NoTime]
    /\ figures = [t \in Threads |-> << >>]
    /\ seen = [t \in Threads |-> << >>]
    /\ n_given = [t \in Threads |-> NoArg]
    /\ fn_in = << >>
    /\ fn_out = None
    /\ fn_call = None
    /\ fn_runs = 0
    /\ data_list = << >>
    /\ intraday_i = 0
    /\ step_in = None
    /\ met = None

(* ------------------------------- actions ------------------------------- *)

\* the wall clock advances
Tick ==
    /\ clock < MaxClock
    /\ clock' = clock + 1
    /\ UNCHANGED << globals, calls, pc, collect_locals, compute_locals,
                    render_locals, fn_vars >>

\* Start with a refresh whatever n_intervals is
StartAlways(t, n_intervals) ==
    /\ t \in Workers
    /\ pc[Main] = "serving"
    /\ pc[t] = "idle"
    /\ t = "w2" => pc["w1"] # "idle"
    /\ calls < MaxCalls
    /\ calls' = calls + 1
    /\ pc' = [pc EXCEPT ![t] = "fetch"]
    /\ n_given' = [n_given EXCEPT ![t] = n_intervals]
    /\ UNCHANGED << globals, clock, collect_locals, compute_locals,
                    timestamp, figures, seen, fn_vars >>

\* lines 206-211: once the module has been loaded, the server hands a call
\* of update_charts(n_intervals) to a free worker (the first one, when both
\* are free: the workers are interchangeable)
Start(t, n_intervals) ==
    /\ t \in Workers
    /\ pc[Main] = "serving"
    /\ pc[t] = "idle"
    /\ t = "w2" => pc["w1"] # "idle"
    /\ calls < MaxCalls
    /\ calls' = calls + 1
    /\ pc' = [pc EXCEPT ![t] = IF n_intervals > 0 THEN "fetch" ELSE "timestamp"]
    /\ n_given' = [n_given EXCEPT ![t] = n_intervals]
    /\ UNCHANGED << globals, clock, collect_locals, compute_locals,
                    timestamp, figures, seen, fn_vars >>

\* lines 85-87: fetch_snp500_data() returned None
FetchNone(t) ==
    /\ pc[t] = "fetch"
    /\ sp500_df' = [sp500_df EXCEPT ![t] = None]
    /\ ret' = [ret EXCEPT ![t] = "empty"]
    /\ pc' = [pc EXCEPT ![t] = "store"]
    /\ n_given' = [n_given EXCEPT ![t] = NoArg]
    /\ UNCHANGED << globals, clock, calls, idx, stored, compute_locals,
                    timestamp, figures, seen, fn_vars >>

\* lines 85-89: fetch_snp500_data() returned a table
FetchTable(t, table) ==
    /\ pc[t] = "fetch"
    /\ sp500_df' = [sp500_df EXCEPT ![t] = table]
    /\ idx' = [idx EXCEPT ![t] = 0]
    /\ pc' = [pc EXCEPT ![t] = "rows"]
    /\ n_given' = [n_given EXCEPT ![t] = NoArg]
    /\ UNCHANGED << globals, clock, calls, ret, stored, compute_locals,
                    timestamp, figures, seen, fn_vars >>

\* lines 90-118: one iteration of the loop over the table
CollectStep(t, current_price, current_cap, hist) ==
    /\ pc[t] = "rows"
    /\ idx[t] < Len(sp500_df[t])
    /\ LET row == sp500_df[t][idx[t] + 1]
       IN  /\ gics_sectors' = CollectRow(gics_sectors, row["Symbol"],
                                         row["GICS Sector"], current_price,
                                         current_cap, hist)
           /\ pc' = [pc EXCEPT
                        ![t] = IF /\ Stores(gics_sectors, row["GICS Sector"],
                                            current_price, current_cap)
                                  /\ Raises(current_price, current_cap, hist)
                               THEN "raised" ELSE @]
           /\ stored' = [stored EXCEPT
                            ![t] = IF /\ Stores(gics_sectors,
                                                row["GICS Sector"],
                                                current_price, current_cap)
                                      /\ ~Raises(current_price, current_cap, hist)
                                   THEN @ \cup {<< row["GICS Sector"],
                                                   Replace(row["Symbol"]) >>}
                                   ELSE @]
    /\ idx' = [idx EXCEPT ![t] = idx[t] + 1]
    /\ UNCHANGED << gics_data, money_flows, generated_at, clock, calls,
                    sp500_df, ret, compute_locals, render_locals, fn_vars >>

\* line 120: the loop is over, return gics_sectors
CollectReturn(t) ==
    /\ pc[t] = "rows"
    /\ idx[t] = Len(sp500_df[t])
    /\ ret' = [ret EXCEPT ![t] = "gics_sectors"]
    /\ sp500_df' = [sp500_df EXCEPT ![t] = None]
    /\ idx' = [idx EXCEPT ![t] = 0]
    /\ pc' = [pc EXCEPT ![t] = "store"]
    /\ UNCHANGED << globals, clock, calls, stored, compute_locals,
                    render_locals, fn_vars >>

\* lines 158 and 212: gics_data = <the value returned>
StoreData(t) ==
    /\ pc[t] = "store"
    /\ gics_data' = ret[t]
    /\ pc' = [pc EXCEPT ![t] = "compute"]
    /\ UNCHANGED << gics_sectors, money_flows, generated_at, clock, calls,
                    collect_locals, compute_locals, render_locals, fn_vars >>

\* lines 122-123: compute_money_flows(gics_data) is entered
ComputeCall(t) ==
    /\ pc[t] = "compute"
    /\ arg' = [arg EXCEPT ![t] = gics_data]
    /\ flow_result' = [flow_result EXCEPT ![t] = EmptyFlowResult]
    /\ done' = [done EXCEPT ![t] = 0]
    /\ pc' = [pc EXCEPT ![t] = "sectors"]
    /\ UNCHANGED << globals, clock, calls, collect_locals, render_locals,
                    fn_vars >>

\* lines 124-153: one iteration of the loop over gics_data.items()
ComputeStep(t) ==
    /\ pc[t] = "sectors"
    /\ done[t] < Len(Deref(arg[t]))
    /\ LET item == Deref(arg[t])[done[t] + 1]
       IN  flow_result' = [flow_result EXCEPT
                              ![t] = AppendSector(@, item[1], item[2])]
    /\ done' = [done EXCEPT ![t] = done[t] + 1]
    /\ UNCHANGED << globals, clock, calls, pc, collect_locals, arg,
                    render_locals, fn_vars >>

\* lines 154, 159 and 213: money_flows = <the flow_result returned>
Publish(t) ==
    /\ pc[t] = "sectors"
    /\ done[t] = Len(Deref(arg[t]))
    /\ money_flows' = flow_result[t]
    /\ generated_at' = clock
    /\ arg' = [arg EXCEPT ![t] = "unset"]
    /\ flow_result' = [flow_result EXCEPT ![t] = None]
    /\ done' = [done EXCEPT ![t] = 0]
    /\ ret' = [ret EXCEPT ![t] = IF t = Main THEN "unset" ELSE @]
    /\ stored' = [stored EXCEPT ![t] = {}]
    /\ pc' = [pc EXCEPT ![t] = IF t = Main THEN "serving" ELSE "timestamp"]
    /\ UNCHANGED << gics_sectors, gics_data, clock, calls, sp500_df, idx,
                    render_locals, fn_vars >>

\* lines 216-218: timestamp = get_est_timestamp(); figures = {}
Timestamp(t) ==
    /\ pc[t] = "timestamp"
    /\ timestamp' = [timestamp EXCEPT ![t] = clock]
    /\ figures' = [figures EXCEPT ![t] = << >>]
    /\ seen' = [seen EXCEPT ![t] = << >>]
    /\ n_given' = [n_given EXCEPT ![t] = NoArg]
    /\ pc' = [pc EXCEPT ![t] = "figures"]
    /\ UNCHANGED << globals, clock, calls, collect_locals, compute_locals,
                    fn_vars >>

\* lines 219-253: one iteration of the loop over the three timeframes
FigureStep(t) ==
    /\ pc[t] = "figures"
    /\ Len(figures[t]) < Len(Labels)
    /\ LET timeframe == Labels[Len(figures[t]) + 1]
           rows == money_flows[timeframe]
       IN  IF RaisesKeyError(rows)
           THEN /\ pc' = [pc EXCEPT ![t] = "raised"]
                /\ UNCHANGED << figures, seen >>
           ELSE /\ figures' = [figures EXCEPT
                                  ![t] = Append(@, << timeframe, Figure(rows) >>)]
                /\ seen' = [seen EXCEPT ![t] = Append(@, money_flows)]
                /\ pc' = [pc EXCEPT
                             ![t] = IF Len(figures[t]) + 1 = Len(Labels)
                                    THEN "return" ELSE "figures"]
    /\ UNCHANGED << globals, clock, calls, collect_locals, compute_locals,
                    timestamp, n_given, fn_vars >>

\* the frame of a call that is over
Finish(t) ==
    /\ pc' = [pc EXCEPT ![t] = "idle"]
    /\ sp500_df' = [sp500_df EXCEPT ![t] = None]
    /\ idx' = [idx EXCEPT ![t] = 0]
    /\ ret' = [ret EXCEPT ![t] = "unset"]
    /\ stored' = [stored EXCEPT ![t] = {}]
    /\ arg' = [arg EXCEPT ![t] = "unset"]
    /\ flow_result' = [flow_result EXCEPT ![t] = None]
    /\ done' = [done EXCEPT ![t] = 0]
    /\ timestamp' = [timestamp EXCEPT ![t] = NoTime]
    /\ figures' = [figures EXCEPT ![t] = << >>]
    /\ seen' = [seen EXCEPT ![t] = << >>]
    /\ n_given' = [n_given EXCEPT ![t] = NoArg]
    /\ UNCHANGED << globals, clock, calls, fn_vars >>

\* lines 255-260: the four outputs are returned
Return(t) ==
    /\ pc[t] = "return"
    /\ Finish(t)

\* an exception leaves update_charts
Raise(t) ==
    /\ pc[t] = "raised"
    /\ Finish(t)

Next ==
    \/ Tick
    \/ \E t \in Workers, n_intervals \in 0..MaxIntervals : Start(t, n_intervals)
    \/ \E t \in Threads : FetchNone(t)
    \/ \E t \in Threads, table \in ConstituentTables : FetchTable(t, table)
    \/ \E t \in Threads, current_price \in CurrentPrices,
          current_cap \in MarketCaps, hist \in HistPrices :
            CollectStep(t, current_price, current_cap, hist)
    \/ \E t \in Threads : CollectReturn(t)
    \/ \E t \in Threads : StoreData(t)
    \/ \E t \in Threads : ComputeCall(t)
    \/ \E t \in Threads : ComputeStep(t)
    \/ \E t \in Threads : Publish(t)
    \/ \E t \in Threads : Timestamp(t)
    \/ \E t \in Threads : FigureStep(t)
    \/ \E t \in Threads : Return(t)
    \/ \E t \in Threads : Raise(t)

Spec == Init /\ [][Next]_vars

(* ------------------- the pure computations on their own ---------------- *)

\* tickers in the sector given to compute_money_flows
MaxTickers == 3
\* tickers the dict holds when the loop body is run on it
MaxHeld == 2
\* calls of compute_money_flows on one argument
MaxRuns == 2

FnSymbols == << << "A" >>, << "B" >>, << "C" >>, << "D" >>, << "E" >> >>

Caps(today, d1, w1, m1) ==
    [k \in {"market_cap_today", "market_cap_1d", "market_cap_1w",
            "market_cap_1m"} |->
        CASE k = "market_cap_today" -> today
          [] k = "market_cap_1d" -> d1
          [] k = "market_cap_1w" -> w1
          [] k = "market_cap_1m" -> m1]

Without(rec, key) == [k \in DOMAIN rec \ {key} |-> rec[k]]

\* ticker records given to compute_money_flows: usable ones, and ones with
\* a cap that is 0, None or not a key of the record
FnRecords ==
    { Caps(Num(110), Num(100), Num(100), None),
      Caps(Num(90), Num(0), Num(100), Num(100)),
      Without(Caps(Num(220), Num(200), Num(200), None), "market_cap_1m"),
      Without(Caps(None, Num(100), Num(100), Num(100)), "market_cap_today"),
      Caps(None, Num(100), Num(100), Num(100)),
      Caps(Num(0), Num(100), Num(100), Num(100)) }

\* the tickers dicts with n tickers
RECURSIVE FnTickers(_)
FnTickers(n) ==
    IF n = 0 THEN { << >> }
    ELSE { Append(d, << FnSymbols[n], r >>) : d \in FnTickers(n - 1),
                                              r \in FnRecords }

\* the arguments: {}, and Energy alone or after an empty Utilities
FnInputs ==
    { << >> } \cup
    UNION { { << << "Energy", d >> >>,
              << << "Utilities", << >> >>, << "Energy", d >> >> } :
            d \in UNION { FnTickers(n) : n \in 0..MaxTickers } }

\* the rows and answers given to the loop body
FnRows ==
    { ConstituentRow(<< "A" >>, "Energy"),
      ConstituentRow(<< "B", ".", "B" >>, "Energy"),
      ConstituentRow(<< "A" >>, "Financials") }
FnCurrentPrices == {None, Num(0), Num(100)}
FnMarketCaps == {None, Num(0), Num(1000000)}
FnHistPrices ==
    { [l \in LabelSet |-> None],
      [l \in LabelSet |-> Num(0)],
      [l \in LabelSet |-> Num(80)],
      [l \in LabelSet |-> IF l = "1d" THEN Num(125) ELSE None],
      [l \in LabelSet |-> IF l = "1m" THEN Num(0) ELSE Num(50)] }

InitFn ==
    /\ gics_sectors = EmptySectors
    /\ gics_data = "unset"
    /\ money_flows = None
    /\ generated_at = NoTime
    /\ clock = 0
    /\ calls = 0
    /\ pc = [t \in Threads |-> "idle"]
    /\ sp500_df = [t \in Threads |-> None]
    /\ idx = [t \in Threads |-> 0]
    /\ ret = [t \in Threads |-> "unset"]
    /\ stored = [t \in Threads |-> {}]
    /\ arg = [t \in Threads |-> "unset"]
    /\ flow_result = [t \in Threads |-> None]
    /\ done = [t \in Threads |-> 0]
    /\ timestamp = [t \in Threads |-> NoTime]
    /\ figures = [t \in Threads |-> << >>]
    /\ seen = [t \in Threads |-> << >>]
    /\ n_given = [t \in Threads |-> NoArg]
    /\ fn_in \in FnInputs
    /\ fn_out = None
    /\ fn_call = None
    /\ fn_runs = 0
    /\ data_list = << >>
    /\ intraday_i = 0
    /\ step_in = None
    /\ met = None

\* the number of tickers in a dict of sectors
RECURSIVE Held(_)
Held(data) ==
    IF data = << >> THEN 0 ELSE Len(data[1][2]) + Held(Tail(data))

\* lines 90-118 run once on fn_in for one row and one set of answers
FnCollect(row, current_price, current_cap, hist) ==
    /\ fn_call = None
    /\ fn_out = None
    /\ Held(fn_in) <= MaxHeld
    /\ fn_call' = [row |-> row, current_price |-> current_price,
                   current_cap |-> current_cap, hist |-> hist,
                   raised |-> /\ Stores(fn_in, row["GICS Sector"],
                                        current_price, current_cap)
                              /\ Raises(current_price, current_cap, hist)]
    /\ fn_in' = CollectRow(fn_in, row["Symbol"], row["GICS Sector"],
                           current_price, current_cap, hist)
    /\ UNCHANGED << globals, clock, calls, pc, collect_locals,
                    compute_locals, render_locals, fn_out, fn_runs,
                    intraday_vars >>

\* FnCompute with a flow_result that outlives the call
FnComputeKeeping ==
    /\ fn_runs < MaxRuns
    /\ fn_out' = ComputeFrom(IF fn_out = None THEN EmptyFlowResult
                                               ELSE fn_out, fn_in)
    /\ fn_runs' = fn_runs + 1
    /\ UNCHANGED << globals, clock, calls, pc, collect_locals,
                    compute_locals, render_locals, fn_in, fn_call,
                    intraday_vars >>

\* lines 122-154 run on fn_in, for the first time or once more: the
\* function reads its argument and writes only its local flow_result
FnCompute ==
    /\ fn_runs < MaxRuns
    /\ fn_out' = compute_money_flows(fn_in)
    /\ fn_runs' = fn_runs + 1
    /\ UNCHANGED << globals, clock, calls, pc, collect_locals,
                    compute_locals, render_locals, fn_in, fn_call,
                    intraday_vars >>

NextFn ==
    \/ \E row \in FnRows, current_price \in FnCurrentPrices,
          current_cap \in FnMarketCaps, hist \in FnHistPrices :
            FnCollect(row, current_price, current_cap, hist)
    \/ FnCompute

SpecFn == InitFn /\ [][NextFn]_vars

(* ------------------ the intraday script (part_000) -------------------- *)

\* the result of a call: the value returned, or the exception raised
Returned(value) == [raised |-> "", value |-> value]
Raised(exception) == [raised |-> exception, value |-> << >>]

\* the value of x / 0
DivByZero == << 1, 0 >>

\* (change / base) * 100
Pct(change, base) ==
    IF base[1] = 0 THEN DivByZero ELSE RMul(RDiv(change, base), Num(100))

\* calculate_metrics without the test of open_price at line 87
calculate_metrics_unguarded(data, prev_close) ==
    IF data = << >> \/ ~Truthy(prev_close) THEN Returned(<< >>)
    ELSE LET current_price == data["current_price"]
             open_price == data["open_price"]
         IN  IF current_price = None \/ open_price = None
             THEN Raised("TypeError")
             ELSE LET price_change == RSub(current_price, prev_close)
                      price_change_pct ==
                          IF Truthy(prev_close)
                          THEN Pct(price_change, prev_close) ELSE Num(0)
                      open_change == RSub(open_price, prev_close)
                      open_change_pct ==
                          IF Truthy(prev_close)
                          THEN Pct(open_change, prev_close) ELSE Num(0)
                      intraday_change == RSub(current_price, open_price)
                      intraday_change_pct == Pct(intraday_change, open_price)
                  IN  IF DivByZero \in {price_change_pct, open_change_pct,
                                        intraday_change_pct}
                      THEN Raised("ZeroDivisionError")
                      ELSE Returned(
                             [price_change |-> price_change,
                              price_change_pct |-> price_change_pct,
                              open_change |-> open_change,
                              open_change_pct |-> open_change_pct,
                              intraday_change |-> intraday_change,
                              intraday_change_pct |-> intraday_change_pct,
                              price_up |-> RLess(prev_close, current_price),
                              price_up_since_open |->
                                  RLess(open_price, current_price)])

\* lines 69-102; data is None, {} (both << >>) or the dict of
\* get_current_price_and_volume, of which current_price and open_price are
\* read; a price that is None makes the subtraction of line 78 or 82 raise
calculate_metrics(data, prev_close) ==
    IF data = << >> \/ ~Truthy(prev_close) THEN Returned(<< >>)
    ELSE LET current_price == data["current_price"]
             open_price == data["open_price"]
         IN  IF current_price = None \/ open_price = None
             THEN Raised("TypeError")
             ELSE LET price_change == RSub(current_price, prev_close)
                      price_change_pct ==
                          IF Truthy(prev_close)
                          THEN Pct(price_change, prev_close) ELSE Num(0)
                      open_change == RSub(open_price, prev_close)
                      open_change_pct ==
                          IF Truthy(prev_close)
                          THEN Pct(open_change, prev_close) ELSE Num(0)
                      intraday_change == RSub(current_price, open_price)
                      intraday_change_pct ==
                          IF Truthy(open_price)
                          THEN Pct(intraday_change, open_price) ELSE Num(0)
                  IN  IF DivByZero \in {price_change_pct, open_change_pct,
                                        intraday_change_pct}
                      THEN Raised("ZeroDivisionError")
                      ELSE Returned(
                             [price_change |-> price_change,
                              price_change_pct |-> price_change_pct,
                              open_change |-> open_change,
                              open_change_pct |-> open_change_pct,
                              intraday_change |-> intraday_change,
                              intraday_change_pct |-> intraday_change_pct,
                              price_up |-> RLess(prev_close, current_price),
                              price_up_since_open |->
                                  RLess(open_price, current_price)])

\* lines 142-152: the row of a ticker (volume, vwap, high and low are
\* copied from current_data as they are and left out here)
RowData(clean_ticker, current_data, prev_close, metrics) ==
    [ticker |-> clean_ticker,
     open_price |-> current_data["open_price"],
     current_price |-> current_data["current_price"],
     prev_close |-> prev_close] @@ metrics

\* data_list after one iteration of the loop at lines 119-159: a ticker
\* without current data or previous close is skipped, and an exception of
\* calculate_metrics is caught at line 157
IntradayRow(rows, ticker, current_data, prev_close) ==
    IF current_data = << >> THEN rows
    ELSE IF ~Truthy(prev_close) THEN rows
    ELSE LET metrics == calculate_metrics(current_data, prev_close)
         IN  IF metrics.raised # "" THEN rows
             ELSE Append(rows, RowData(Replace(ticker), current_data,
                                       prev_close, metrics.value))

\* tickers the loop of collect_intraday_data goes through
MaxIntraday == 2

\* tickers_subset, or all_tickers[:max_tickers]
IntradayTickers ==
    SubSeq(<< << "A" >>, << "B", ".", "B" >>, << "C" >>, << "D" >> >>,
           1, MaxIntraday)

\* answers of get_current_price_and_volume and get_previous_close
CurrentData ==
    { None } \cup
    { [k \in {"current_price", "open_price"} |->
          IF k = "current_price" THEN c ELSE o] :
        c \in {None, Num(0), Num(110)}, o \in {None, Num(0), Num(100)} }
PrevCloses == {None, Num(0), Num(100)}

InitIntraday ==
    /\ gics_sectors = EmptySectors
    /\ gics_data = "unset"
    /\ money_flows = None
    /\ generated_at = NoTime
    /\ clock = 0
    /\ calls = 0
    /\ pc = [t \in Threads |-> "idle"]
    /\ sp500_df = [t \in Threads |-> None]
    /\ idx = [t \in Threads |-> 0]
    /\ ret = [t \in Threads |-> "unset"]
    /\ stored = [t \in Threads |-> {}]
    /\ arg = [t \in Threads |-> "unset"]
    /\ flow_result = [t \in Threads |-> None]
    /\ done = [t \in Threads |-> 0]
    /\ timestamp = [t \in Threads |-> NoTime]
    /\ figures = [t \in Threads |-> << >>]
    /\ seen = [t \in Threads |-> << >>]
    /\ n_given = [t \in Threads |-> NoArg]
    /\ fn_in = << >>
    /\ fn_out = None
    /\ fn_call = None
    /\ fn_runs = 0
    /\ data_list = << >>
    /\ intraday_i = 0
    /\ step_in = None
    /\ met = None

\* calculate_metrics called once on its own, with any arguments
CalcMetrics(data, prev_close) ==
    /\ met = None
    /\ met' = [data |-> data, prev_close |-> prev_close,
               result |-> calculate_metrics(data, prev_close)]
    /\ UNCHANGED << globals, clock, calls, pc, collect_locals,
                    compute_locals, render_locals, fn_in, fn_out, fn_call,
                    fn_runs, data_list, intraday_i, step_in >>

\* lines 119-159: one iteration of the loop of collect_intraday_data
IntradayStep(current_data, prev_close) ==
    /\ intraday_i < Len(IntradayTickers)
    /\ data_list' = IntradayRow(data_list, IntradayTickers[intraday_i + 1],
                                current_data, prev_close)
    /\ intraday_i' = intraday_i + 1
    /\ step_in' = [current_data |-> current_data, prev_close |-> prev_close]
    /\ UNCHANGED << globals, clock, calls, pc, collect_locals,
                    compute_locals, render_locals, fn_in, fn_out, fn_call,
                    fn_runs, met >>

NextIntraday ==
    \/ \E data \in CurrentData, prev_close \in PrevCloses :
          CalcMetrics(data, prev_close)
    \/ \E current_data \in CurrentData, prev_close \in PrevCloses :
          IntradayStep(current_data, prev_close)

SpecIntraday == InitIntraday /\ [][NextIntraday]_vars

(* ------------------------- the refresh controller ---------------------- *)

\* thread t is inside a collection+aggregation cycle
InCycle(t) == pc[t] \in {"fetch", "rows", "store", "compute", "sectors"}

\* this step is thread t assigning money_flows
Publishes(t) == pc[t] = "sectors" /\ pc'[t] \in {"serving", "timestamp"}

RowSectors(rows) == [i \in 1..Len(rows) |-> rows[i]["Sector"]]

\* sectors without the tickers that keys does not name
OnlyStored(sectors, keys) ==
    [i \in 1..Len(sectors) |->
        << sectors[i][1],
           SelectSeq(sectors[i][2],
                     LAMBDA kv : << sectors[i][1], kv[1] >> \in keys) >>]

\* C1: a refresh cycle whose fetch_snp500_data() returned None leaves
\* money_flows as it was, and the update_charts call that ran it does not
\* raise.
C1_StaleOnResolverFailure ==
    [][\A t \in Workers :
          (ret[t] = "empty" /\ pc'[t] # pc[t])
              => (money_flows' = money_flows /\ pc'[t] # "raised")]_vars

\* C2: the result a cycle that resolved constituents publishes is computed
\* from the records that cycle stored and from no other: a ticker the cycle
\* skipped, or did not find in the table, contributes to no aggregate.
\* (Stated for a cycle that aggregates the dict it collected and publishes
\* while no other call is running; overlapping cycles are the subject of C4.)
C2_OnlyThisCycle ==
    [][\A t \in Threads :
          (/\ Publishes(t)
           /\ ret[t] = "gics_sectors"
           /\ arg[t] = "gics_sectors"
           /\ \A u \in Workers \ {t} : pc[u] = "idle")
              => money_flows' =
                    compute_money_flows(OnlyStored(gics_sectors, stored[t]))]_vars

\* C3: the three figures one update_charts call returns are all built from
\* one and the same value of money_flows.
C3_AtomicRead ==
    \A t \in Workers :
        pc[t] = "return" =>
            \E i \in 1..Len(seen[t]) :
                \A j \in 1..Len(Labels) :
                    figures[t][j] =
                        << Labels[j], Figure(seen[t][i][Labels[j]]) >>

\* C4: at most one thread is inside a collection+aggregation cycle at any
\* time, so a tick that arrives during a cycle starts no second cycle.
C4_CyclesSerialized ==
    Cardinality({t \in Threads : InCycle(t)}) <= 1

\* C7: every figure of a call is built from a money_flows that was assigned
\* at the time the call shows as its timestamp.
C7_TimestampIsGenerationTime ==
    [][\A t \in Workers :
          (pc[t] = "figures" /\ figures'[t] # figures[t])
              => timestamp[t] = generated_at]_vars

\* the rows of a sector that contributes nothing
ZeroRow(sector) == Row(sector, Num(0), Num(0))

\* C6 as claimed: a published result has a row for a tracked sector exactly
\* when the data it was computed from holds a ticker of that sector.
C6_RowIffUsableTicker ==
    [][\A t \in Threads :
          Publishes(t) =>
              \A label \in LabelSet, sector \in TrackedSectors :
                  (\E i \in 1..Len(money_flows'[label]) :
                        money_flows'[label][i]["Sector"] = sector)
                  <=> /\ sector \in DictKeySet(Deref(arg[t]))
                      /\ DictGet(Deref(arg[t]), sector) # << >>]_vars

\* C6 as amended: a published result has either no row at all (its cycle
\* aggregated {}) or, in every window, one row per tracked sector in the
\* order of gics_sectors; a sector that holds no ticker has the zero row.
C6_RowPerTrackedSector ==
    money_flows # None =>
        \/ \A label \in LabelSet : money_flows[label] = << >>
        \/ \A label \in LabelSet :
              /\ RowSectors(money_flows[label]) = SectorOrder
              /\ \A i \in 1..Len(SectorOrder) :
                    DictGet(gics_sectors, SectorOrder[i]) = << >>
                        => money_flows[label][i] = ZeroRow(SectorOrder[i])

\* a published result in which Energy, holding a ticker, has a row that is
\* not zero and Utilities, holding none, has the zero row
C6_Witness ==
    /\ money_flows # None
    /\ money_flows["1d"] # << >>
    /\ DictGet(gics_sectors, "Energy") # << >>
    /\ DictGet(gics_sectors, "Utilities") = << >>
    /\ money_flows["1d"][4] # ZeroRow("Energy")
    /\ money_flows["1d"][5] = ZeroRow("Utilities")

(* ------------------------- the pure computations ----------------------- *)

\* positions of the records that have both market_cap_today and the cap of
\* the window, neither None nor 0
Contributing(tickers, label) ==
    {k \in 1..Len(tickers) :
        LET d == tickers[k][2]
        IN  /\ "market_cap_today" \in DOMAIN d
            /\ CapKey(label) \in DOMAIN d
            /\ Truthy(d["market_cap_today"])
            /\ Truthy(d[CapKey(label)])}

RECURSIVE SumSet(_, _)
SumSet(K, value) ==
    IF K = {} THEN Num(0)
    ELSE LET k == CHOOSE k \in K : TRUE
         IN  RAdd(value[k], SumSet(K \ {k}, value))

\* the row compute_money_flows returned for a sector and a window
HasRow(result, label, sector, pct, abs) ==
    \E j \in 1..Len(result[label]) :
        result[label][j] = Row(sector, pct, abs)

\* C5: for a sector and window with a contributing ticker, Change (%) is
\* the unweighted mean of (today - past) / past * 100 over the contributing
\* tickers and Absolute Change ($M) the sum of (today - past) over 1,000,000.
C5_MeanAndSum ==
    fn_out # None =>
        \A i \in 1..Len(fn_in), label \in LabelSet :
            LET tickers == fn_in[i][2]
                K == Contributing(tickers, label)
                today == [k \in K |-> tickers[k][2]["market_cap_today"]]
                past == [k \in K |-> tickers[k][2][CapKey(label)]]
                pct == [k \in K |->
                          RMul(RDiv(RSub(today[k], past[k]), past[k]),
                               Num(100))]
                abs == [k \in K |-> RSub(today[k], past[k])]
            IN  K # {} =>
                    HasRow(fn_out, label, fn_in[i][1],
                           RDiv(SumSet(K, pct), Num(Cardinality(K))),
                           RDiv(SumSet(K, abs), Num(1000000)))

\* caps (110, 100), (90, 100), (220, 200) in window 1w of Energy give
\* mean(10, -10, 10) and (10 - 10 + 20) / 1e6
C5_Witness ==
    /\ fn_out # None
    /\ \E i \in 1..Len(fn_in) :
          /\ fn_in[i][1] = "Energy"
          /\ Cardinality(Contributing(fn_in[i][2], "1w")) = 3
          /\ {fn_in[i][2][k][2]["market_cap_today"] : k \in 1..3}
                = {Num(110), Num(90), Num(220)}
    /\ HasRow(fn_out, "1w", "Energy", Rat(10, 3), Rat(20, 1000000))

\* C8: the loop body stores market_cap_w = (historical_price /
\* current_price) * current_cap for every window whose historical price is
\* available, None for the others, stores nothing when current_price or
\* current_cap is 0 or None, and never raises.
C8_EstimatedCap ==
    [][fn_call' # fn_call =>
          LET c == fn_call'
              sector == c.row["GICS Sector"]
              ticker == Replace(c.row["Symbol"])
          IN  /\ ~c.raised
              /\ IF /\ sector \in DictKeySet(fn_in)
                    /\ Truthy(c.current_price)
                    /\ Truthy(c.current_cap)
                 THEN LET rec == DictGet(DictGet(fn_in', sector), ticker)
                      IN  \A l \in LabelSet :
                            IF Truthy(c.hist[l])
                            THEN /\ rec[CapKey(l)] # None
                                 /\ RMul(rec[CapKey(l)], c.current_price)
                                      = RMul(c.hist[l], c.current_cap)
                            ELSE rec[CapKey(l)] = None
                 ELSE fn_in' = fn_in]_vars

\* price 100, cap 1,000,000 and historical price 80 have stored 800,000
C8_Witness ==
    /\ fn_call # None
    /\ fn_call.current_price = Num(100)
    /\ fn_call.current_cap = Num(1000000)
    /\ fn_call.hist["1w"] = Num(80)
    /\ fn_call.row["GICS Sector"] \in DictKeySet(fn_in)
    /\ DictGet(DictGet(fn_in, fn_call.row["GICS Sector"]),
               Replace(fn_call.row["Symbol"]))["market_cap_1w"] = Num(800000)

\* C9: a sector and window with no contributing ticker is reported with
\* Change (%) = 0 and Absolute Change ($M) = 0.
C9_EmptyIsZero ==
    fn_out # None =>
        \A i \in 1..Len(fn_in), label \in LabelSet :
            Contributing(fn_in[i][2], label) = {}
                => HasRow(fn_out, label, fn_in[i][1], Num(0), Num(0))

\* Energy holds usable tickers that contribute to 1d, none of them to 1m
C9_Witness ==
    /\ fn_out # None
    /\ \E i \in 1..Len(fn_in) :
          /\ fn_in[i][1] = "Energy"
          /\ Contributing(fn_in[i][2], "1d") # {}
          /\ Contributing(fn_in[i][2], "1m") = {}
    /\ HasRow(fn_out, "1m", "Energy", Num(0), Num(0))

\* a record compute_money_flows can count: market_cap_today is a key and
\* its value is neither None nor 0
Usable(d) ==
    "market_cap_today" \in DOMAIN d /\ Truthy(d["market_cap_today"])

OnlyUsable(data) ==
    [i \in 1..Len(data) |->
        << data[i][1], SelectSeq(data[i][2], LAMBDA kv : Usable(kv[2])) >>]

\* C10: the loop body changes the collected data only when current price
\* and current market cap are both available and not 0, and the result of
\* compute_money_flows is the one it gives once every record whose
\* market_cap_today is missing, None or 0 is taken out of its argument.
C10_Exclusion ==
    /\ [](fn_out # None => fn_out = compute_money_flows(OnlyUsable(fn_in)))
    /\ [][fn_in' # fn_in =>
             /\ Truthy(fn_call'.current_price)
             /\ Truthy(fn_call'.current_cap)]_vars

\* the result for a sector that holds a usable record next to one without a
\* usable market_cap_today, after a row without market cap was skipped
C10_Witness ==
    /\ fn_out # None
    /\ fn_call # None
    /\ Truthy(fn_call.current_price)
    /\ ~Truthy(fn_call.current_cap)
    /\ \E i \in 1..Len(fn_in) :
          /\ \E k \in 1..Len(fn_in[i][2]) : Usable(fn_in[i][2][k][2])
          /\ \E k \in 1..Len(fn_in[i][2]) : ~Usable(fn_in[i][2][k][2])
          /\ Contributing(fn_in[i][2], "1w") # {}

\* the last run of the loop body reached line 117
StoredCall ==
    /\ fn_call # None
    /\ ~fn_call.raised
    /\ Stores(fn_in, fn_call.row["GICS Sector"], fn_call.current_price,
              fn_call.current_cap)

\* the tickers of the sector of the last row, the ticker of that row left out
OtherTickers ==
    SelectSeq(DictGet(fn_in, fn_call.row["GICS Sector"]),
              LAMBDA kv : kv[1] # Replace(fn_call.row["Symbol"]))

\* the row of a sector and window whose contributing records are those at
\* the positions K of tickers, and extra further data points (today, past)
ExpectedRow(sector, tickers, label, extra) ==
    LET K == Contributing(tickers, label)
        today == [k \in K |-> tickers[k][2]["market_cap_today"]]
        past == [k \in K |-> tickers[k][2][CapKey(label)]]
        pct == [k \in K |->
                  RMul(RDiv(RSub(today[k], past[k]), past[k]), Num(100))]
        abs == [k \in K |-> RSub(today[k], past[k])]
        xpct == [j \in 1..Len(extra) |->
                   RMul(RDiv(RSub(extra[j][1], extra[j][2]), extra[j][2]),
                        Num(100))]
        xabs == [j \in 1..Len(extra) |-> RSub(extra[j][1], extra[j][2])]
        n == Cardinality(K) + Len(extra)
    IN  IF n = 0 THEN Row(sector, Num(0), Num(0))
        ELSE Row(sector,
                 RDiv(RAdd(SumSet(K, pct), sum(xpct)), Num(n)),
                 RDiv(RAdd(SumSet(K, abs), sum(xabs)), Num(1000000)))

\* C11: a ticker stored with a historical price for one window and none
\* for another adds exactly one data point (its own) to the row of its
\* sector for the first window, and leaves the row for the second window
\* as the other tickers of the sector make it.
C11_PartialParticipation ==
    (fn_out # None /\ StoredCall) =>
        LET c == fn_call
            sector == c.row["GICS Sector"]
            point(l) == << c.current_cap,
                           RMul(RDiv(c.hist[l], c.current_price),
                                c.current_cap) >>
        IN  \A l \in LabelSet :
                \E j \in 1..Len(fn_out[l]) :
                    /\ fn_out[l][j]["Sector"] = sector
                    /\ fn_out[l][j] =
                          ExpectedRow(sector, OtherTickers, l,
                                      IF Truthy(c.hist[l])
                                      THEN << point(l) >> ELSE << >>)

\* a ticker with a price for 1d and none for 1m, stored in a sector whose
\* other tickers contribute to both windows
C11_Witness ==
    /\ fn_out # None
    /\ StoredCall
    /\ Truthy(fn_call.hist["1d"])
    /\ ~Truthy(fn_call.hist["1m"])
    /\ Contributing(OtherTickers, "1d") # {}
    /\ Contributing(OtherTickers, "1m") # {}
    /\ \E j \in 1..Len(fn_out["1m"]) :
          /\ fn_out["1m"][j]["Sector"] = "Energy"
          /\ fn_out["1m"][j] # fn_out["1d"][j]

\* the cap of a record for a window is not a key, None or 0
NoCap(d, label) ==
    CapKey(label) \notin DOMAIN d \/ ~Truthy(d[CapKey(label)])

WithoutNoCap(tickers, label) ==
    SelectSeq(tickers, LAMBDA kv : ~NoCap(kv[2], label))

\* C12: a record whose market_cap_w is 0, None or not a key adds nothing to
\* the row of its sector for window w, the row being the mean and sum over
\* the other records of the sector, and is still counted in every window
\* for which it has a cap; every division compute_money_flows reaches has a
\* divisor that is not 0.
C12_SkippedForThatWindowOnly ==
    fn_out # None =>
        \A l \in LabelSet :
            /\ Len(fn_out[l]) = Len(fn_in)
            /\ \A i \in 1..Len(fn_in) :
                  LET sector == fn_in[i][1]
                      tickers == fn_in[i][2]
                  IN  /\ fn_out[l][i] = ExpectedRow(sector, tickers, l, << >>)
                      /\ fn_out[l][i] =
                            compute_money_flows(
                                << << sector, WithoutNoCap(tickers, l) >> >>
                            )[l][1]
                      /\ \A k \in 1..Len(tickers) :
                            LET d == tickers[k][2]
                            IN  (/\ Usable(d)
                                 /\ Truthy(RecGet(d, CapKey(l))))
                                    => d[CapKey(l)][1] # 0
                      /\ PctChanges(DictValues(tickers), l) # << >>
                            => Len(PctChanges(DictValues(tickers), l)) # 0

\* Energy holds three records: one without the key market_cap_1m, one
\* whose market_cap_1d is 0 and whose cap for 1m counts, one whose
\* market_cap_1m is None; 1d and 1m each get a row from the others
C12_Witness ==
    /\ fn_out # None
    /\ \E i \in 1..Len(fn_in) :
          LET tickers == fn_in[i][2]
          IN  /\ Len(tickers) = 3
              /\ \E k \in 1..3 : "market_cap_1m" \notin DOMAIN tickers[k][2]
              /\ \E k \in 1..3 :
                    /\ "market_cap_1m" \in DOMAIN tickers[k][2]
                    /\ tickers[k][2]["market_cap_1m"] = None
              /\ \E k \in 1..3 :
                    /\ tickers[k][2]["market_cap_1d"] = Num(0)
                    /\ k \in Contributing(tickers, "1m")
              /\ Cardinality(Contributing(tickers, "1d")) = 2
              /\ Cardinality(Contributing(tickers, "1m")) = 1
              /\ fn_out["1d"][i] # ZeroRow(fn_in[i][1])
              /\ fn_out["1m"][i] # ZeroRow(fn_in[i][1])

C18_OneRowPerSectorKey ==
    fn_out # None =>
        /\ DOMAIN fn_out = {"1d", "1w", "1m"}
        /\ \A label \in DOMAIN fn_out :
              /\ Len(fn_out[label]) = Len(fn_in)
              /\ RowSectors(fn_out[label]) = [i \in 1..Len(fn_in) |-> fn_in[i][1]]

\* the result for an argument with the keys Utilities (no ticker) and
\* Energy (three tickers, none of them contributing to 1m)
C18_Witness ==
    /\ fn_out # None
    /\ Len(fn_in) = 2
    /\ fn_in[1][2] = << >>
    /\ Len(fn_in[2][2]) = 3
    /\ Contributing(fn_in[2][2], "1m") = {}
    /\ RowSectors(fn_out["1m"]) = << "Utilities", "Energy" >>

(* ------------------- the refresh controller, continued ----------------- *)

\* the tickers of one item of gics_sectors, the given ticker left out
OthersOf(item, sector, ticker) ==
    IF item[1] = sector
    THEN SelectSeq(item[2], LAMBDA kv : kv[1] # ticker)
    ELSE item[2]

\* C13: the loop of collect_sector_data takes the rows of the table one
\* after the other and returns gics_sectors after the last one; no answer
\* of the provider (no price, no cap, no historical price) makes it raise,
\* and an iteration changes no record but that of its own ticker.
C13_EveryConstituent ==
    [][\A t \in Threads :
          (pc[t] = "rows" /\ << pc'[t], idx'[t] >> # << pc[t], idx[t] >>)
              => /\ pc'[t] \in {"rows", "store"}
                 /\ pc'[t] = "store"
                       => /\ idx[t] = Len(sp500_df[t])
                          /\ ret'[t] = "gics_sectors"
                 /\ pc'[t] = "rows"
                       => /\ idx[t] < Len(sp500_df[t])
                          /\ idx'[t] = idx[t] + 1
                          /\ Len(gics_sectors') = Len(gics_sectors)
                          /\ LET row == sp500_df[t][idx[t] + 1]
                                 sector == row["GICS Sector"]
                                 ticker == Replace(row["Symbol"])
                             IN  \A i \in 1..Len(gics_sectors) :
                                   /\ gics_sectors'[i][1] = gics_sectors[i][1]
                                   /\ OthersOf(gics_sectors'[i], sector, ticker)
                                        = OthersOf(gics_sectors[i], sector,
                                                   ticker)]_vars

\* the start-up cycle is through its three rows: XOM had no usable answer
\* and is not stored, BF-B after it is
C13_Witness ==
    /\ pc[Main] = "rows"
    /\ Len(sp500_df[Main]) = 3
    /\ idx[Main] = 3
    /\ stored[Main] = {<< "Consumer Staples", << "B", "F", "-", "B" >> >>}
    /\ DictGet(gics_sectors, "Energy") = << >>
    /\ DictKeySet(DictGet(gics_sectors, "Consumer Staples"))
          = {<< "B", "F", "-", "B" >>}

\* the tickers of the rows of the constituent tables that name a sector
TickersOf(sector) ==
    UNION { { Replace(table[j]["Symbol"]) :
                j \in { k \in 1..Len(table) :
                          table[k]["GICS Sector"] = sector } } :
            table \in ConstituentTables }

\* C15: the keys of gics_sectors, the dict the cycles collect into, are the
\* tracked sectors and nothing else; a sector holds only tickers the table
\* lists under it, so a ticker of an untracked sector has no record; and no
\* row of money_flows, or of a result being built, names an untracked
\* sector.
C15_UntrackedDropped ==
    /\ DictKeySet(gics_sectors) = TrackedSectors
    /\ DictKeySet(Deref(gics_data)) \subseteq TrackedSectors
    /\ \A i \in 1..Len(gics_sectors) :
          DictKeySet(gics_sectors[i][2]) \subseteq TickersOf(gics_sectors[i][1])
    /\ \A t \in Threads :
          \A pair \in stored[t] : pair[1] \in TrackedSectors
    /\ \A label \in LabelSet :
          /\ money_flows # None
                => \A j \in 1..Len(money_flows[label]) :
                      money_flows[label][j]["Sector"] \in TrackedSectors
          /\ \A t \in Threads :
                flow_result[t] # None
                    => \A j \in 1..Len(flow_result[t][label]) :
                          flow_result[t][label][j]["Sector"]
                              \in TrackedSectors

\* a cycle after start-up is past the row of JPM (Financials, not tracked)
\* with usable answers for XOM before it, and money_flows has rows
C15_Witness ==
    /\ money_flows # None
    /\ money_flows["1d"] # << >>
    /\ \E t \in Workers :
          /\ pc[t] = "rows"
          /\ idx[t] = 2
          /\ sp500_df[t][2]["GICS Sector"] \notin TrackedSectors
          /\ stored[t] = {<< "Energy", << "X", "O", "M" >> >>}
    /\ TickersOf("Financials") # {}

\* the day the wall clock shows; every tick of the clock is taken to be a
\* midnight
Day == StartDay + clock

\* line 109: the date get_stock_price is given for a window
RequestedDate(label) == date_offsets[label]

\* C16: whenever a cycle started by update_charts stores a ticker, the
\* historical prices it asked for were those of 1, 7 and 28 days before the
\* day on which it runs.
C16_DatesFollowTheCycle ==
    [][\A t \in Workers :
          (pc[t] = "rows" /\ stored'[t] # stored[t])
              => \A label \in LabelSet :
                    RequestedDate(label) = Day - timedelta[label]]_vars

\* what a step may do about cycles: a thread enters one only as a call of
\* update_charts given an n_intervals above 0, and every such call does; a
\* call given 0 goes straight to the rendering; and gics_data,
\* gics_sectors and money_flows are written only by a thread in a cycle
CycleStep ==
    /\ \A t \in Threads :
          (InCycle(t)' /\ ~InCycle(t))
              => (t \in Workers /\ pc[t] = "idle" /\ n_given'[t] > 0)
    /\ \A t \in Workers :
          (pc[t] = "idle" /\ pc'[t] # "idle")
              => /\ (n_given'[t] > 0) => (pc'[t] = "fetch")
                 /\ (n_given'[t] = 0)
                       => /\ pc'[t] = "timestamp"
                          /\ << gics_data, gics_sectors, money_flows >>'
                               = << gics_data, gics_sectors, money_flows >>
    /\ (<< gics_data, gics_sectors, money_flows >>'
            # << gics_data, gics_sectors, money_flows >>)
          => (\E t \in Threads :
                 /\ InCycle(t)
                 /\ << pc[t], idx[t] >>' # << pc[t], idx[t] >>)

\* C17: a cycle runs at process start (the start-up thread begins in one)
\* and on each call of update_charts with n_intervals > 0, and at no other
\* time; a call with n_intervals = 0 runs no cycle and leaves gics_data,
\* gics_sectors and money_flows as they are.
C17_CycleTriggers == InCycle(Main) /\ [][CycleStep]_vars

\* a call with n_intervals = 0 is about to render the result of start-up
\* while a call with n_intervals = 1 is about to fetch the table
C17_Witness ==
    /\ money_flows # None
    /\ money_flows["1d"] # << >>
    /\ pc["w1"] = "timestamp"
    /\ n_given["w1"] = 0
    /\ pc["w2"] = "fetch"
    /\ n_given["w2"] = 1

(* --------------------------- the intraday script ----------------------- *)

\* what C19 says of one call of calculate_metrics
MetricsAsStated(data, prev_close, result) ==
    /\ result.raised # "ZeroDivisionError"
    /\ (data = << >> \/ prev_close = None \/ prev_close = Num(0))
          => result = Returned(<< >>)
    /\ (/\ data # << >>
        /\ prev_close # None
        /\ prev_close # Num(0)
        /\ data["current_price"] # None
        /\ data["open_price"] # None)
          => LET v == result.value
                 current_price == data["current_price"]
                 open_price == data["open_price"]
             IN  /\ result.raised = ""
                 /\ v.price_change = RSub(current_price, prev_close)
                 /\ v.open_change = RSub(open_price, prev_close)
                 /\ v.intraday_change = RSub(current_price, open_price)
                 /\ RMul(v.price_change_pct, prev_close)
                       = RMul(v.price_change, Num(100))
                 /\ RMul(v.open_change_pct, prev_close)
                       = RMul(v.open_change, Num(100))
                 /\ RMul(v.intraday_change_pct, open_price)
                       = IF open_price = Num(0) THEN Num(0)
                         ELSE RMul(v.intraday_change, Num(100))
                 /\ open_price = Num(0) => v.intraday_change_pct = Num(0)

\* C19: calculate_metrics returns {} when data or prev_close is missing or
\* 0; otherwise, for prices that are numbers, the three changes are the
\* differences and each percentage is its change over its base times 100,
\* intraday_change_pct being 0 when open_price is 0; it never divides by 0;
\* and the loop of collect_intraday_data appends a row, and one only, for
\* no ticker but one with current data and a previous close that is not 0,
\* the row holding the metrics of those two.
C19_IntradayMetrics ==
    /\ [](met # None => MetricsAsStated(met.data, met.prev_close, met.result))
    /\ [][data_list' # data_list =>
             LET c == step_in'
             IN  /\ c.current_data # << >>
                 /\ c.prev_close # None
                 /\ c.prev_close # Num(0)
                 /\ Len(data_list') = Len(data_list) + 1
                 /\ SubSeq(data_list', 1, Len(data_list)) = data_list
                 /\ LET row == data_list'[Len(data_list')]
                    IN  /\ row.ticker = Replace(IntradayTickers[intraday_i'])
                        /\ row.prev_close = c.prev_close
                        /\ MetricsAsStated(
                               c.current_data, c.prev_close,
                               Returned([k \in DOMAIN row \
                                           {"ticker", "open_price",
                                            "current_price", "prev_close"}
                                         |-> row[k]]))]_vars

\* calculate_metrics has been given an open_price of 0 and returned 0 for
\* intraday_change_pct, and the loop has a row for its first ticker and
\* none for its second, whose previous close was 0
C19_Witness ==
    /\ met # None
    /\ met.data # << >>
    /\ met.data["open_price"] = Num(0)
    /\ met.data["current_price"] = Num(110)
    /\ met.prev_close = Num(100)
    /\ met.result.raised = ""
    /\ met.result.value.intraday_change_pct = Num(0)
    /\ met.result.value.price_change_pct = Num(10)
    /\ intraday_i = 2
    /\ Len(data_list) = 1
    /\ data_list[1].ticker = << "A" >>
    /\ step_in.current_data # << >>
    /\ step_in.prev_close = Num(0)

====
